---- MODULE Spec2Model ----
(***************************************************************************)
(* A state-machine model of flv-parser.c: flv_parser_run reading an FLV    *)
(* byte stream through stdio, the tag frame parser flv_read_tag, and the   *)
(* audio, video, AVC and script-data payload decoders it dispatches to.    *)
(*                                                                         *)
(* The stream is forward-only, so the value of a byte is chosen when the   *)
(* code first looks at it (\E in the action that reads it); a byte the     *)
(* code looked at without consuming is kept in `peek` and read back with   *)
(* the same value.  Bytes that are only copied or printed are not chosen.  *)
(* The build modelled is the default one: assert() is active and a failed  *)
(* assertion aborts the process.                                           *)
(***************************************************************************)
EXTENDS Integers, Sequences, FiniteSets, TLC

----------------------------------------------------------------------------
(* Bounds of the model *)

\* longest short stream, in bytes
MaxLen == 40
\* length of the one long stream (room for a script-data payload > 1024)
LongLen == 1090
\* largest declared payload-size of an audio tag (low byte)
MaxAudio == 3
\* largest declared payload-size of a video tag (low byte)
MaxVideo == 10
\* largest declared payload-size of a script-data tag (low byte)
MaxPayload == 27
\* largest declared item count of a strict array
MaxItems == 2
\* longest property name / string drawn for a script-data value
MaxName == 1
\* deepest nesting of objects below the top-level body
MaxDepth == 2

----------------------------------------------------------------------------
(* Program constants *)

TAGTYPE_AUDIODATA == 8
TAGTYPE_VIDEODATA == 9
TAGTYPE_SCRIPTDATAOBJECT == 18
FLV_CODEC_ID_AVC == 7
\* sizeof(flv_header_t): signature[3], version, type_flags, data_offset
HeaderSize == 9

SCRIPTDATA_NUMBER == 0
SCRIPTDATA_BOOLEAN == 1
SCRIPTDATA_STRING == 2
SCRIPTDATA_OBJECT == 3
SCRIPTDATA_MOVIE_CLIP == 4
SCRIPTDATA_ECMA_ARRAY == 8
SCRIPTDATA_OBJECT_END_MARKER == 9
SCRIPTDATA_STRICT_ARRAY == 10
SCRIPTDATA_DATE == 11

\* entries of the display-name tables indexed by decoded fields
N_scriptdata_value_type_names == 13
N_frame_types == 6
N_codec_ids == 8
N_avc_packet_types == 3

\* "FLV"
flv_signature == <<70, 76, 86>>

\* size_t arithmetic wraps modulo SizeMax + 1.  TLC's integers are 32-bit,
\* so size_t is modelled at 31 bits: a wrapped difference stays far above
\* every stream and payload length of the model, as it does at 32 or 64 bits.
SizeMax == 2147483647

Nil == [nil |-> TRUE]

----------------------------------------------------------------------------
(* State *)

VARIABLES
    len,            \* number of bytes in g_infile
    pos,            \* file position of g_infile
    eof,            \* end-of-file indicator of g_infile (feof)
    pc,             \* control point of the process
    ret,            \* value returned by flv_parser_run (-1: not returned)
    tag,            \* flv_tag_t under construction / returned, or Nil
    hdr_end,        \* history: file position after the 11-byte tag header
    count,          \* local `count` of the running payload decoder
    byte,           \* local `byte` of read_audio_tag / read_video_tag
    audio,          \* audio_tag_t fields and aac_packet_type, or Nil
    video,          \* video_tag_t fields, or Nil
    avc,            \* avc_video_tag_t fields and data_size parameter, or Nil
    sd              \* script-data decoder state (cursor, nesting depth of
                    \* print_scriptdata_object, history of its exits and
                    \* writes), or Nil

vars == <<len, pos, eof, pc, ret, tag, hdr_end, count, byte, audio, video, avc, sd>>

----------------------------------------------------------------------------
(* Integer helpers *)

Pow2(n) == 2 ^ n

\* bit i (from the low side) of v
Bit(v, i) == (v \div Pow2(i)) % 2

\* bitwise and of two 8-bit values
RECURSIVE And8From(_, _, _)
And8From(a, b, i) ==
    IF i > 7 THEN 0
    ELSE Bit(a, i) * Bit(b, i) * Pow2(i) + And8From(a, b, i + 1)

And8(a, b) == And8From(a, b, 0)

flv_get_bits_wrong_shift(value, start_bit, cnt) ==
    LET mask == ((Pow2(cnt) - 1) * Pow2(start_bit)) % 256
    IN  And8(mask, value) \div Pow2(start_bit + 1)

\* flv_get_bits: mask = (uint8_t)(((1 << count) - 1) << start_bit);
\*               return (mask & value) >> start_bit;
flv_get_bits(value, start_bit, cnt) ==
    LET mask == ((Pow2(cnt) - 1) * Pow2(start_bit)) % 256
    IN  And8(mask, value) \div Pow2(start_bit)

\* (bytes[0] << 16) | (bytes[1] << 8) | bytes[2]
be24(b) == b[1] * 65536 + b[2] * 256 + b[3]

\* (bytes[0] << 24) | (bytes[1] << 16) | (bytes[2] << 8) | bytes[3]
be32(b) == b[1] * 16777216 + b[2] * 65536 + b[3] * 256 + b[4]

\* a - b in size_t
SizeSub(a, b) == IF a >= b THEN a - b ELSE (SizeMax - (b - a)) + 1

----------------------------------------------------------------------------
(* stdio: fread on g_infile at position p *)

\* bytes fread transfers when n are requested at position p
Got(p, n) == IF n <= len - p THEN n ELSE len - p

\* the end-of-file indicator after requesting n bytes at position p
EofAfter(e, p, n) == e \/ (n > len - p)

\* the buffer after a read of n = Len(bs) bytes at p into a zeroed buffer:
\* the bytes transferred, then the zeros the buffer was initialised with
Filled(p, bs) == [i \in 1..Len(bs) |-> IF i <= Got(p, Len(bs)) THEN bs[i] ELSE 0]

\* fread_1: returns fread(ptr, 1, 1, g_infile)
fread_1(p) == [count |-> Got(p, 1), pos |-> p + Got(p, 1)]

\* fread_3: bytes[3] = {0}; count = fread(bytes, 3, 1, g_infile);
\*          *ptr = big-endian value of bytes; return count * 3
fread_3(p, bs) ==
    [val   |-> be24(Filled(p, bs)),
     count |-> IF Got(p, 3) = 3 THEN 3 ELSE 0,
     pos   |-> p + Got(p, 3)]

\* fread_4, as fread_3 with four bytes
fread_4(p, bs) ==
    [val   |-> be32(Filled(p, bs)),
     count |-> IF Got(p, 4) = 4 THEN 4 ELSE 0,
     pos   |-> p + Got(p, 4)]

\* indexing a display-name table of n entries with idx for printf("%s"):
\* inside the table it prints; outside it is an out-of-bounds read, after
\* which the process may go on or crash
PrintLookup(idx, n) == IF idx < n THEN {"ok"} ELSE {"ok", "crash"}

----------------------------------------------------------------------------
(* Input alphabets: the byte values the stream supplies in the model *)

SigBytes == {<<70, 76, 86>>, <<70, 76, 0>>}

\* The streams modelled are: every stream of up to MaxLen bytes made of
\* audio, video and undefined (10) tags; the streams of MaxLen bytes whose
\* first tag is a script-data tag; and the stream of LongLen bytes, whose
\* first tag is a script-data tag with a payload of more than 1024 bytes.

\* the tag-type byte at file position p
TagTypeBytes(p) ==
    IF p # HeaderSize + 4 THEN {TAGTYPE_AUDIODATA, TAGTYPE_VIDEODATA, 10}
    ELSE IF len = LongLen THEN {TAGTYPE_SCRIPTDATAOBJECT}
    ELSE IF len = MaxLen
    THEN {TAGTYPE_AUDIODATA, TAGTYPE_VIDEODATA, TAGTYPE_SCRIPTDATAOBJECT, 10}
    ELSE {TAGTYPE_AUDIODATA, TAGTYPE_VIDEODATA, 10}

\* the three payload-size bytes that follow tag-type byte t
SizeBytes(t) ==
    CASE t = TAGTYPE_SCRIPTDATAOBJECT ->
           IF len = LongLen THEN {<<0, 4, MaxPayload>>}
           ELSE {<<0, 0, n>> : n \in 0..MaxPayload}
      [] t = TAGTYPE_AUDIODATA ->
           {<<0, 0, n>> : n \in 0..MaxAudio} \cup {<<255, 255, 255>>}
      [] t = TAGTYPE_VIDEODATA ->
           {<<0, 0, n>> : n \in 0..MaxVideo}
      [] OTHER -> {<<0, 0, 1>>}

StampBytes == {<<0, 0, 1>>}

\* first byte of an audio payload: AAC (10) and two other formats
AudioBytes == {175, 160, 47, 0}

\* first byte of a video payload: frame types 1 and 5 with codecs 7 (AVC)
\* and 2, and frame type 6 with codec 15 (both outside the name tables)
VideoBytes == {23, 18, 87, 82, 111}

\* AVC packet-type byte
AvcTypeBytes == {0, 1, 2, 3}

\* the three composition-time bytes
CompBytes == {<<0, 0, 1>>, <<128, 0, 0>>, <<255, 255, 255>>}

\* the four first-NALU-length bytes
NaluBytes == {<<0, 0, 0, 5>>}

----------------------------------------------------------------------------
(* Initial state: flv_parser_init done, flv_parser_run about to start *)

Init ==
    /\ len \in (0..MaxLen) \cup {LongLen}
    /\ pos = 0
    /\ eof = FALSE
    /\ pc = "run"
    /\ ret = -1
    /\ tag = Nil
    /\ hdr_end = 0
    /\ count = 0
    /\ byte = 0
    /\ audio = Nil
    /\ video = Nil
    /\ avc = Nil
    /\ sd = Nil

----------------------------------------------------------------------------
(* flv_parser_run / flv_read_header *)

\* flv_read_header: fread of the header, assert on the three signature
\* bytes.  After a short read the signature bytes are those of the malloc'ed
\* buffer, which are as arbitrary as the stream's.
flv_read_header ==
    /\ pc = "run"
    /\ \E sig \in SigBytes :
         /\ pos' = pos + Got(pos, HeaderSize)
         /\ eof' = EofAfter(eof, pos, HeaderSize)
         /\ pc' = IF \A i \in 1..Len(flv_signature) : sig[i] = flv_signature[i]
                  THEN "read_tag" ELSE "aborted"
    /\ UNCHANGED <<len, ret, tag, hdr_end, count, byte, audio, video, avc, sd>>

no_more_tags_never(e) == FALSE

\* if (feof(g_infile)) { free(tag); return NULL; }
no_more_tags(e) == e

\* flv_read_tag, up to the end-of-file test: fread_4 of the previous tag
\* size, fread_1 of the tag type.  When the test passes flv_read_tag returns
\* NULL and flv_parser_run returns 0.
flv_read_tag ==
    /\ pc = "read_tag"
    /\ \E prev \in NaluBytes, t \in TagTypeBytes(pos + 4) :
         LET r4 == fread_4(pos, prev)
             e4 == EofAfter(eof, pos, 4)
             r1 == fread_1(r4.pos)
             e1 == EofAfter(e4, r4.pos, 1)
         IN  /\ pos' = r1.pos
             /\ eof' = e1
             /\ IF no_more_tags(e1)
                THEN /\ pc' = "done"
                     /\ ret' = 0
                     /\ tag' = Nil
                ELSE /\ pc' = "tag_header"
                     /\ ret' = ret
                     /\ tag' = [tag_type |-> t, data_size |-> 0, timestamp |-> 0,
                                timestamp_ext |-> 0, stream_id |-> 0]
    /\ UNCHANGED <<len, hdr_end, count, byte, audio, video, avc, sd>>

\* flv_read_tag, the rest of the tag header: fread_3 data_size, fread_3
\* timestamp, fread_1 timestamp_ext, fread_3 stream_id; no return value is
\* looked at.  timestamp_ext and stream_id are 0 in the streams modelled
\* (a timestamp_ext the read does not fill is that of the malloc'ed tag).
flv_read_tag_header ==
    /\ pc = "tag_header"
    /\ \E sz \in SizeBytes(tag.tag_type), ts \in StampBytes :
         LET rs == fread_3(pos, sz)
             rt == fread_3(rs.pos, ts)
             re == fread_1(rt.pos)
             ri == fread_3(re.pos, <<0, 0, 0>>)
         IN  /\ tag' = [tag EXCEPT !.data_size = rs.val, !.timestamp = rt.val,
                                   !.timestamp_ext = 0, !.stream_id = ri.val]
             /\ pos' = ri.pos
             /\ eof' = EofAfter(eof, pos, 10)
             /\ hdr_end' = ri.pos
    /\ pc' = "dispatch"
    /\ UNCHANGED <<len, ret, count, byte, audio, video, avc, sd>>

\* flv_free_tag and the next turn of the loop in flv_parser_run
flv_free_tag ==
    /\ pc = "free"
    /\ pc' = "read_tag"
    /\ tag' = Nil
    /\ audio' = Nil
    /\ video' = Nil
    /\ avc' = Nil
    /\ sd' = Nil
    /\ count' = 0
    /\ byte' = 0
    /\ UNCHANGED <<len, pos, eof, ret, hdr_end>>

----------------------------------------------------------------------------
(* flv_read_tag: dispatch on the tag type *)

tag_case_audio_default(t) ==
    CASE t = TAGTYPE_VIDEODATA -> "read_video_tag"
      [] t = TAGTYPE_SCRIPTDATAOBJECT -> "read_scriptdata_tag"
      [] OTHER -> "read_audio_tag"

\* switch (tag->tag_type): the control point the case leads to; the default
\* case is free(tag); die(), and die() ends in exit(-1)
tag_case(t) ==
    CASE t = TAGTYPE_AUDIODATA -> "read_audio_tag"
      [] t = TAGTYPE_VIDEODATA -> "read_video_tag"
      [] t = TAGTYPE_SCRIPTDATAOBJECT -> "read_scriptdata_tag"
      [] OTHER -> "died"

flv_read_tag_dispatch ==
    /\ pc = "dispatch"
    /\ pc' = tag_case(tag.tag_type)
    /\ tag' = IF tag_case(tag.tag_type) = "died" THEN Nil ELSE tag
    /\ UNCHANGED <<len, pos, eof, ret, hdr_end, count, byte, audio, video, avc, sd>>

----------------------------------------------------------------------------
(* Reading the rest of a payload: malloc(n); fread(data, 1, n, g_infile) *)

\* malloc returns NULL for a request no address space holds: the requests
\* above the 24-bit maximum are the wrapped differences
MallocFails(n) == n > be24(<<255, 255, 255>>)

\* the outcomes of malloc(n) followed by fread(data, 1, n, g_infile) at
\* position p.  With data = NULL a transfer of at least one byte writes
\* through a null pointer: the process crashes, or goes on with the stream
\* read to its end.
ReadData(p, e, n) ==
    IF MallocFails(n) /\ Got(p, n) > 0
    THEN {[crash |-> TRUE, count |-> 0, pos |-> p, eof |-> e],
          [crash |-> FALSE, count |-> Got(p, n), pos |-> p + Got(p, n),
           eof |-> EofAfter(e, p, n)]}
    ELSE {[crash |-> FALSE, count |-> Got(p, n), pos |-> p + Got(p, n),
           eof |-> EofAfter(e, p, n)]}

----------------------------------------------------------------------------
(* read_audio_tag *)

is_aac_or_speex(format) == format \in {10, 11}

\* if (tag->sound_format == 10)
is_aac(format) == format = 10

\* read_audio_tag up to the sound fields: NULL for an empty payload, else
\* fread_1 of the first byte and the four flv_get_bits calls
read_audio_tag_from(bytes) ==
    /\ pc = "read_audio_tag"
    /\ IF tag.data_size = 0
       THEN /\ pc' = "free"
            /\ UNCHANGED <<pos, eof, count, byte, audio>>
       ELSE \E b \in bytes :
              LET r == fread_1(pos)
                  v == IF r.count = 1 THEN b ELSE 0
              IN  /\ pos' = r.pos
                  /\ eof' = EofAfter(eof, pos, 1)
                  /\ count' = r.count
                  /\ byte' = v
                  /\ audio' = [sound_format |-> flv_get_bits(v, 4, 4),
                               sound_rate |-> flv_get_bits(v, 2, 2),
                               sound_size |-> flv_get_bits(v, 1, 1),
                               sound_type |-> flv_get_bits(v, 0, 1),
                               aac_packet_type |-> 255,
                               config |-> FALSE,
                               data_len |-> 0]
                  /\ pc' = "audio_aac"
    /\ UNCHANGED <<len, ret, tag, hdr_end, video, avc, sd>>

read_audio_tag == read_audio_tag_from(AudioBytes)

\* read_audio_tag, the AACPacketType: for sound format 10 a second fread_1
\* into `byte` (which keeps its value when nothing is read)
read_audio_tag_aac ==
    /\ pc = "audio_aac"
    /\ IF is_aac(audio.sound_format)
       THEN \E b \in {0, 1} :
              LET r == fread_1(pos)
                  v == IF r.count = 1 THEN b ELSE byte
              IN  /\ pos' = r.pos
                  /\ eof' = EofAfter(eof, pos, 1)
                  /\ count' = count + r.count
                  /\ byte' = v
                  /\ audio' = [audio EXCEPT !.aac_packet_type = v]
       ELSE UNCHANGED <<pos, eof, count, byte, audio>>
    /\ pc' = "audio_data"
    /\ UNCHANGED <<len, ret, tag, hdr_end, video, avc, sd>>

\* read_audio_tag, the data: malloc and fread of data_size - count bytes,
\* printed as AudioSpecificConfig if (aac_packet_type == 0 && count > 0)
read_audio_tag_data ==
    /\ pc = "audio_data"
    /\ \E r \in ReadData(pos, eof, SizeSub(tag.data_size, count)) :
         /\ pos' = r.pos
         /\ eof' = r.eof
         /\ count' = r.count
         /\ audio' = [audio EXCEPT !.data_len = SizeSub(tag.data_size, count),
                                   !.config = (audio.aac_packet_type = 0 /\ r.count > 0)]
         /\ pc' = IF r.crash THEN "crashed" ELSE "free"
    /\ UNCHANGED <<len, ret, tag, hdr_end, byte, video, avc, sd>>

----------------------------------------------------------------------------
(* read_video_tag and read_avc_video_tag *)

\* read_video_tag up to the codec test: NULL for an empty payload, else
\* fread_1 of the first byte, frame type and codec id, and their names
\* printed from frame_types[] and codec_ids[]
read_video_tag ==
    /\ pc = "read_video_tag"
    /\ IF tag.data_size = 0
       THEN /\ pc' = "free"
            /\ UNCHANGED <<pos, eof, count, byte, video, avc>>
       ELSE \E b \in VideoBytes :
              LET r == fread_1(pos)
                  v == IF r.count = 1 THEN b ELSE 0
                  ft == flv_get_bits(v, 4, 4)
                  cid == flv_get_bits(v, 0, 4)
              IN  /\ pos' = r.pos
                  /\ eof' = EofAfter(eof, pos, 1)
                  /\ count' = r.count
                  /\ byte' = v
                  /\ video' = [frame_type |-> ft, codec_id |-> cid, data_len |-> 0]
                  /\ \E p1 \in PrintLookup(ft, N_frame_types),
                        p2 \in PrintLookup(cid, N_codec_ids) :
                       IF p1 = "crash" \/ p2 = "crash"
                       THEN pc' = "crashed" /\ avc' = avc
                       ELSE IF cid = FLV_CODEC_ID_AVC
                       THEN /\ pc' = "read_avc_video_tag"
                            /\ avc' = [avc_packet_type |-> 0, composition_time |-> 0,
                                       nalu_len |-> 0,
                                       data_size |-> SizeSub(tag.data_size, r.count),
                                       data_len |-> 0]
                       ELSE pc' = "video_data" /\ avc' = avc
    /\ UNCHANGED <<len, ret, tag, hdr_end, audio, sd>>

\* read_video_tag, a codec other than AVC: malloc and fread of
\* data_size - count bytes
read_video_tag_data ==
    /\ pc = "video_data"
    /\ \E r \in ReadData(pos, eof, SizeSub(tag.data_size, count)) :
         /\ pos' = r.pos
         /\ eof' = r.eof
         /\ count' = r.count
         /\ video' = [video EXCEPT !.data_len = SizeSub(tag.data_size, count)]
         /\ pc' = IF r.crash THEN "crashed" ELSE "free"
    /\ UNCHANGED <<len, ret, tag, hdr_end, byte, audio, avc, sd>>

\* assert(video_tag->frame_type != 5)
avc_frame_type_ok(ft) == ft # 5

\* read_avc_video_tag up to the assert: fread_1 of the packet type (that of
\* the malloc'ed tag when nothing is read), for packet type 1 fread_3 of the
\* composition time (the uint32_t fread_3 assembles from the three bytes is
\* stored as it is), then assert(video_tag->frame_type != 5)
read_avc_video_tag ==
    /\ pc = "read_avc_video_tag"
    /\ \E pt \in AvcTypeBytes, ct \in CompBytes :
         LET r1 == fread_1(pos)
             r3 == fread_3(r1.pos, ct)
         IN  /\ IF pt = 1
                THEN /\ pos' = r3.pos
                     /\ eof' = EofAfter(eof, pos, 4)
                     /\ count' = r1.count + r3.count
                     /\ avc' = [avc EXCEPT !.avc_packet_type = pt,
                                           !.composition_time = r3.val]
                ELSE /\ pos' = r1.pos
                     /\ eof' = EofAfter(eof, pos, 1)
                     /\ count' = r1.count
                     /\ avc' = [avc EXCEPT !.avc_packet_type = pt,
                                           !.composition_time = 0]
             /\ pc' = IF avc_frame_type_ok(video.frame_type) THEN "avc_nalu" ELSE "aborted"
    /\ UNCHANGED <<len, ret, tag, hdr_end, byte, audio, video, sd>>

\* read_avc_video_tag, the AVCVIDEOPACKET: data_len, for packet type 1
\* fread_4 of the first NALU length, and the packet type's name printed from
\* avc_packet_types[]
read_avc_video_tag_nalu ==
    /\ pc = "avc_nalu"
    /\ \E nb \in NaluBytes, p \in PrintLookup(avc.avc_packet_type, N_avc_packet_types) :
         LET r4 == fread_4(pos, nb)
         IN  /\ IF avc.avc_packet_type = 1
                THEN /\ pos' = r4.pos
                     /\ eof' = EofAfter(eof, pos, 4)
                     /\ count' = count + r4.count
                     /\ avc' = [avc EXCEPT !.nalu_len = r4.val,
                                           !.data_len = SizeSub(avc.data_size, count)]
                ELSE /\ UNCHANGED <<pos, eof, count>>
                     /\ avc' = [avc EXCEPT !.nalu_len = 0,
                                           !.data_len = SizeSub(avc.data_size, count)]
             /\ pc' = IF p = "crash" THEN "crashed" ELSE "avc_data"
    /\ UNCHANGED <<len, ret, tag, hdr_end, byte, audio, video, sd>>

\* read_avc_video_tag, the data: malloc and fread of data_size - count bytes
read_avc_video_tag_data ==
    /\ pc = "avc_data"
    /\ \E r \in ReadData(pos, eof, SizeSub(avc.data_size, count)) :
         /\ pos' = r.pos
         /\ eof' = r.eof
         /\ count' = r.count
         /\ pc' = IF r.crash THEN "crashed" ELSE "free"
    /\ UNCHANGED <<len, ret, tag, hdr_end, byte, audio, video, avc, sd>>


----------------------------------------------------------------------------
(* The script-data cursor: (uint8_t **data, size_t *len) over tag->data.   *)
(* off is *data - tag->data, l is *len, peek holds the bytes at *data the   *)
(* code has already looked at.                                             *)

Cursor(off, l) == [off |-> off, l |-> l, peek |-> <<>>]

\* the byte at (*data)[i]: the one already seen there, else the fresh one
At(c, i, fresh) == IF i < Len(c.peek) THEN c.peek[i + 1] ELSE fresh

\* the cursor unchanged, the bytes bs at *data now known
Look(c, bs) == IF Len(bs) > Len(c.peek) THEN [c EXCEPT !.peek = bs] ELSE c

\* a cursor that is never moved
Advance_nowhere(c, n) == c

\* *data += n; *len -= n
Advance(c, n) ==
    [off |-> c.off + n, l |-> c.l - n,
     peek |-> IF n >= Len(c.peek) THEN <<>> ELSE SubSeq(c.peek, n + 1, Len(c.peek))]

\* what a parse function hands back: the cursor it leaves, whether it
\* returned a value (ok) or its 0 / NULL early return, whether an assert
\* failed, and the value where the caller looks at it
Parsed(c, val) == [c |-> c, ok |-> TRUE, abort |-> FALSE, val |-> val]
Declined(c) == [c |-> c, ok |-> FALSE, abort |-> FALSE, val |-> 0]
Aborted(c) == [c |-> c, ok |-> FALSE, abort |-> TRUE, val |-> 0]

\* parse_scriptdata_number without the test of the 8 bytes of the double
parse_scriptdata_number_no_length_test(c, f) ==
    IF c.l < 1 THEN Declined(c)
    ELSE LET type == At(c, 0, f[1])
         IN  IF type # SCRIPTDATA_NUMBER THEN Aborted(c)
             ELSE Parsed(Advance(c, 9), 0)

\* parse_scriptdata_number; f[1] is the fresh type byte
parse_scriptdata_number(c, f) ==
    IF c.l < 1 THEN Declined(c)
    ELSE LET type == At(c, 0, f[1])
         IN  IF type # SCRIPTDATA_NUMBER THEN Aborted(c)
             ELSE IF c.l - 1 < 8 THEN Declined(Look(c, <<type>>))
             ELSE Parsed(Advance(c, 9), 0)

\* parse_scriptdata_boolean; f[1] is the fresh type byte
parse_scriptdata_boolean(c, f) ==
    IF c.l < 1 THEN Declined(c)
    ELSE LET type == At(c, 0, f[1])
         IN  IF type # SCRIPTDATA_BOOLEAN THEN Aborted(c)
             ELSE IF c.l - 1 < 1 THEN Declined(Look(c, <<type>>))
             ELSE Parsed(Advance(c, 2), 0)

\* parse_scriptdata_string_without_type; f[1], f[2] are the fresh length
\* bytes and f[3] the fresh first byte of the text.  The value is the C
\* string at dst: its length in the stream, its first char, which is the
\* '\0' written at dst[0] when the length is 0, and the offset in tag->data
\* of dst[length], the highest byte the function writes (dst = src - 1).
parse_scriptdata_string_without_type(c, f) ==
    IF c.l < 2 THEN Declined(c)
    ELSE LET d0 == At(c, 0, f[1])
             d1 == At(c, 1, f[2])
             length == d0 * 256 + d1
         IN  IF c.l - 2 < length THEN Declined(Look(c, <<d0, d1>>))
             ELSE Parsed(Advance(c, 2 + length),
                         [length |-> length,
                          first |-> IF length = 0 THEN 0 ELSE f[3],
                          nul_at |-> c.off + 1 + length])

\* parse_scriptdata_string; f[1] is the fresh type byte, the rest as above.
\* The type byte is consumed before the string is tried.
parse_scriptdata_string(c, f) ==
    IF c.l < 1 THEN Declined(c)
    ELSE LET type == At(c, 0, f[1])
         IN  IF type # SCRIPTDATA_STRING THEN Aborted(c)
             ELSE parse_scriptdata_string_without_type(Advance(c, 1), Tail(f))

\* parse_scriptdata_ECMA_array_raw; f[1] is the fresh type byte, f[2..5]
\* the fresh length bytes
parse_scriptdata_ECMA_array_raw(c, f) ==
    IF c.l < 1 THEN Declined(c)
    ELSE LET type == At(c, 0, f[1])
         IN  IF type # SCRIPTDATA_ECMA_ARRAY THEN Aborted(c)
             ELSE IF c.l - 1 < 4 THEN Declined(Look(c, <<type>>))
             ELSE Parsed(Advance(c, 5), be32(Tail(f)))

\* the items loop of parse_scriptdata_strict_array: n more calls of
\* parse_scriptdata_number, whose return value is not looked at;
\* types[i] is the fresh type byte of the i-th of them
\* (the value handed back counts the calls that returned a number)
RECURSIVE strict_array_items(_, _, _)
strict_array_items(c, n, types) ==
    IF n = 0 THEN Parsed(c, 0)
    ELSE LET r == parse_scriptdata_number(c, types)
         IN  IF r.abort THEN Aborted(r.c)
             ELSE LET rest == strict_array_items(r.c, n - 1, Tail(types))
                  IN  IF rest.abort THEN rest
                      ELSE Parsed(rest.c, rest.val + (IF r.ok THEN 1 ELSE 0))

\* parse_scriptdata_strict_array; f[1] is the fresh type byte, f[2..5] the
\* fresh length bytes, types the fresh type bytes of the items.  The value
\* is the declared length; items is the number of items the loop read.
parse_scriptdata_strict_array(c, f, types) ==
    IF c.l < 1 THEN [items |-> 0] @@ Declined(c)
    ELSE LET type == At(c, 0, f[1])
         IN  IF type # SCRIPTDATA_STRICT_ARRAY THEN [items |-> 0] @@ Aborted(c)
             ELSE IF c.l - 1 < 4 THEN [items |-> 0] @@ Declined(Look(c, <<type>>))
             ELSE LET length == be32(Tail(f))
                      r == strict_array_items(Advance(c, 5), length, types)
                  IN  IF r.abort THEN [items |-> 0] @@ r
                      ELSE [items |-> r.val] @@ Parsed(r.c, length)

\* parse_scriptdata_date; f[1] is the fresh type byte
parse_scriptdata_date(c, f) ==
    IF c.l < 1 THEN Declined(c)
    ELSE LET type == At(c, 0, f[1])
         IN  IF type # SCRIPTDATA_DATE THEN Aborted(c)
             ELSE IF c.l - 1 < 8 THEN Declined(Look(c, <<type>>))
             ELSE IF c.l - 9 < 2 THEN Declined(Look(c, <<type>>))
             ELSE Parsed(Advance(c, 11), 0)


----------------------------------------------------------------------------
(* Input alphabets of the script-data payload *)

\* type bytes of property values: the seven the switch decodes, MovieClip
\* (in the name table, not decoded) and 13 (outside the name table)
ValueTypeBytes ==
    {SCRIPTDATA_NUMBER, SCRIPTDATA_BOOLEAN, SCRIPTDATA_STRING, SCRIPTDATA_OBJECT,
     SCRIPTDATA_MOVIE_CLIP, SCRIPTDATA_OBJECT_END_MARKER, SCRIPTDATA_STRICT_ARRAY,
     SCRIPTDATA_DATE, 13}

\* the payloads modelled nest objects at most MaxDepth deep below the
\* top-level body and hold, past offset MaxPayload, only Numbers with empty
\* names and terminators
PropTypeBytes(s) ==
    IF s.c.off > MaxPayload THEN {SCRIPTDATA_NUMBER, SCRIPTDATA_OBJECT_END_MARKER}
    ELSE IF s.depth > MaxDepth THEN ValueTypeBytes \ {SCRIPTDATA_OBJECT}
    ELSE ValueTypeBytes

\* length bytes and first text byte of a string or property name
NameBytes(s) ==
    IF s.c.off > MaxPayload THEN {<<0, 0, 0>>}
    ELSE {<<0, n, ch>> : n \in 0..MaxName, ch \in {0, 97}}

\* the four length bytes of an array
CountBytes == {<<0, 0, 0, n>> : n \in 0..MaxItems}

\* the type bytes of the items of a strict array
ItemTypeBytes == [1..MaxItems -> {SCRIPTDATA_NUMBER, SCRIPTDATA_STRING}]

----------------------------------------------------------------------------
(* read_scriptdata_tag and print_scriptdata_object *)

\* the decoder state after a string has been parsed: wrote is the offset one
\* past the highest byte of tag->data written so far (memmove and
\* dst[length] = '\0' in parse_scriptdata_string_without_type)
Stored(s, r) == IF r.ok THEN [s EXCEPT !.wrote = r.val.nul_at + 1] ELSE s

\* read_scriptdata_tag up to the name: NULL for an empty payload, else
\* malloc and fread of data_size bytes (whatever the stream does not supply
\* stays as malloc left it) and parse_scriptdata_string of the name
read_scriptdata_tag ==
    /\ pc = "read_scriptdata_tag"
    /\ IF tag.data_size <= 0
       THEN /\ pc' = "free"
            /\ UNCHANGED <<pos, eof, sd>>
       ELSE \E t \in {SCRIPTDATA_STRING, SCRIPTDATA_NUMBER},
               nb \in {<<0, n, 97>> : n \in 0..MaxName} :
              LET r == parse_scriptdata_string(Cursor(0, tag.data_size), <<t>> \o nb)
              IN  /\ pos' = pos + Got(pos, tag.data_size)
                  /\ eof' = EofAfter(eof, pos, tag.data_size)
                  /\ sd' = Stored([c |-> r.c, depth |-> 0, property_type |-> 0,
                                    exit_by |-> "none", unsupported |-> FALSE,
                                    strict |-> Nil, wrote |-> 0], r)
                  /\ pc' = IF r.abort THEN "aborted"
                           ELSE IF ~r.ok THEN "free" ELSE "script_value"
    /\ UNCHANGED <<len, ret, tag, hdr_end, count, byte, audio, video, avc>>

\* read_scriptdata_tag, the value: parse_scriptdata_ECMA_array_raw, then
\* value_length and the call of print_scriptdata_object
read_scriptdata_tag_value ==
    /\ pc = "script_value"
    /\ \E t \in {SCRIPTDATA_ECMA_ARRAY, SCRIPTDATA_OBJECT}, cb \in CountBytes :
         LET r == parse_scriptdata_ECMA_array_raw(sd.c, <<t>> \o cb)
         IN  /\ sd' = [sd EXCEPT !.c = IF r.ok THEN Cursor(r.c.off, tag.data_size - r.c.off)
                                       ELSE r.c,
                                 !.depth = IF r.ok THEN 1 ELSE 0]
             /\ pc' = IF r.abort THEN "aborted"
                      ELSE IF ~r.ok THEN "free" ELSE "object_loop"
    /\ UNCHANGED <<len, pos, eof, ret, tag, hdr_end, count, byte, audio, video, avc>>

\* the innermost print_scriptdata_object leaves its loop at cursor c:
\* a nested call returns into the loop of its caller, the outermost one to
\* read_scriptdata_tag
LeaveObject(s, c, why) ==
    [s EXCEPT !.c = c, !.depth = s.depth - 1, !.exit_by = why,
              !.unsupported = (s.unsupported \/ why = "unknown"),
              !.property_type = 0, !.strict = Nil]

AfterObject(s) == IF s.depth = 1 THEN "script_end" ELSE "object_loop"

\* an empty C string: property_name[0] == '\0'
name_is_empty(name) == name.first = 0

\* the terminator test: property_name[0] == '\0' &&
\*                      property_type == SCRIPTDATA_OBJECT_END_MARKER
is_terminator(name, type) == name_is_empty(name) /\ type = SCRIPTDATA_OBJECT_END_MARKER

\* print_scriptdata_object, one turn of the loop up to the switch: the
\* while test, the property name, the length test, the property type and
\* the terminator test
print_scriptdata_object ==
    /\ pc = "object_loop"
    /\ IF ~(sd.c.l > 0)
       THEN /\ sd' = LeaveObject(sd, sd.c, "exhausted")
            /\ pc' = AfterObject(sd)
       ELSE \E nb \in NameBytes(sd), t \in PropTypeBytes(sd) :
              LET r == parse_scriptdata_string_without_type(sd.c, nb)
                  type == At(r.c, 0, t)
              IN  IF ~r.ok
                  THEN /\ sd' = LeaveObject(sd, r.c, "name_null")
                       /\ pc' = AfterObject(sd)
                  ELSE IF r.c.l < 1
                  THEN /\ sd' = LeaveObject(Stored(sd, r), r.c, "no_type")
                       /\ pc' = AfterObject(sd)
                  ELSE IF is_terminator(r.val, type)
                  THEN /\ sd' = LeaveObject(Stored(sd, r), Advance(r.c, 1),
                                            IF r.val.length = 0 THEN "terminator"
                                            ELSE "terminator_nul_name")
                       /\ pc' = AfterObject(sd)
                  ELSE /\ sd' = [Stored(sd, r) EXCEPT !.c = Look(r.c, <<type>>),
                                           !.property_type = type,
                                           !.exit_by = "none",
                                           !.strict = Nil]
                       /\ pc' = "object_property"
    /\ UNCHANGED <<len, pos, eof, ret, tag, hdr_end, count, byte, audio, video, avc>>

\* print_scriptdata_object, the switch on property_type
print_scriptdata_object_property ==
    /\ pc = "object_property"
    /\ LET t == sd.property_type
           s == [sd EXCEPT !.exit_by = "none"]
       IN  CASE t = SCRIPTDATA_NUMBER ->
                  /\ sd' = [s EXCEPT !.c = parse_scriptdata_number(sd.c, <<t>>).c]
                  /\ pc' = "object_loop"
             [] t = SCRIPTDATA_BOOLEAN ->
                  /\ sd' = [s EXCEPT !.c = parse_scriptdata_boolean(sd.c, <<t>>).c]
                  /\ pc' = "object_loop"
             [] t = SCRIPTDATA_STRING ->
                  \* a NULL from parse_scriptdata_string goes to printf's %s
                  \E nb \in NameBytes(sd) :
                    LET r == parse_scriptdata_string(sd.c, <<t>> \o nb)
                    IN  /\ sd' = [Stored(s, r) EXCEPT !.c = r.c]
                        /\ pc' \in IF r.ok THEN {"object_loop"}
                                   ELSE {"object_loop", "crashed"}
             [] t = SCRIPTDATA_OBJECT ->
                  /\ sd' = [s EXCEPT !.c = Advance(sd.c, 1), !.depth = sd.depth + 1]
                  /\ pc' = "object_loop"
             [] t = SCRIPTDATA_STRICT_ARRAY ->
                  \E cb \in CountBytes, types \in ItemTypeBytes :
                    LET r == parse_scriptdata_strict_array(sd.c, <<t>> \o cb, types)
                    IN  /\ sd' = [s EXCEPT !.c = r.c,
                                           !.strict = [ok |-> r.ok, length |-> r.val,
                                                       items |-> r.items,
                                                       from |-> sd.c, to |-> r.c]]
                        /\ pc' = IF r.abort THEN "aborted" ELSE "object_loop"
             [] t = SCRIPTDATA_DATE ->
                  /\ sd' = [s EXCEPT !.c = parse_scriptdata_date(sd.c, <<t>>).c]
                  /\ pc' = "object_loop"
             [] OTHER ->
                  \E p \in PrintLookup(t, N_scriptdata_value_type_names) :
                    IF p = "crash"
                    THEN sd' = s /\ pc' = "crashed"
                    ELSE /\ sd' = LeaveObject(s, sd.c, "unknown")
                         /\ pc' = AfterObject(sd)
    /\ UNCHANGED <<len, pos, eof, ret, tag, hdr_end, count, byte, audio, video, avc>>

\* read_scriptdata_tag, after print_scriptdata_object:
\* assert(value_length == 0); return tag
read_scriptdata_tag_end ==
    /\ pc = "script_end"
    /\ pc' = IF sd.c.l = 0 THEN "free" ELSE "aborted"
    /\ UNCHANGED <<len, pos, eof, ret, tag, hdr_end, count, byte, audio, video, avc, sd>>

----------------------------------------------------------------------------
(* The process *)

Next ==
    \/ flv_read_header
    \/ flv_read_tag
    \/ flv_read_tag_header
    \/ flv_read_tag_dispatch
    \/ read_audio_tag
    \/ read_audio_tag_aac
    \/ read_audio_tag_data
    \/ read_video_tag
    \/ read_video_tag_data
    \/ read_avc_video_tag
    \/ read_avc_video_tag_nalu
    \/ read_avc_video_tag_data
    \/ read_scriptdata_tag
    \/ read_scriptdata_tag_value
    \/ print_scriptdata_object
    \/ print_scriptdata_object_property
    \/ read_scriptdata_tag_end
    \/ flv_free_tag

Spec == Init /\ [][Next]_vars

\* flv_parser_run is one sequential process with no suspension point: a
\* step that can be taken is taken
SpecFair == Spec /\ WF_vars(Next)


----------------------------------------------------------------------------
(* read_audio_tag on its own, for every value of the first payload byte:   *)
(* the process has read the file header and the header of an audio tag     *)
(* that starts the stream, and the stream holds 0..MaxAudio+1 more bytes.  *)

FirstPayload == HeaderSize + 4 + 11

InitAudio ==
    /\ len \in FirstPayload..(FirstPayload + MaxAudio + 1)
    /\ pos = FirstPayload
    /\ eof = FALSE
    /\ pc = "read_audio_tag"
    /\ ret = -1
    /\ tag \in {[tag_type |-> TAGTYPE_AUDIODATA, data_size |-> n, timestamp |-> 1,
                 timestamp_ext |-> 0, stream_id |-> 0] : n \in 0..MaxAudio}
    /\ hdr_end = FirstPayload
    /\ count = 0
    /\ byte = 0
    /\ audio = Nil
    /\ video = Nil
    /\ avc = Nil
    /\ sd = Nil

read_audio_tag_every_byte == read_audio_tag_from(0..255)

NextAudio ==
    \/ read_audio_tag_every_byte
    \/ read_audio_tag_aac
    \/ read_audio_tag_data

SpecAudio == InitAudio /\ [][NextAudio]_vars

----------------------------------------------------------------------------
(* Claims *)

\* C1 (as claimed): for a tag of type 8, 9 or 18 whose declared payload the
\* stream holds, flv_read_tag returns with the file position exactly
\* payload-size bytes past the tag header, and no payload decoder has read
\* more bytes than declared when it computes data_size - count.
C1_FrameContract ==
    /\ (pc = "audio_data" \/ pc = "video_data") => count <= tag.data_size
    /\ pc = "avc_data" => count <= avc.data_size
    /\ (pc = "free" /\ hdr_end + tag.data_size <= len)
          => pos = hdr_end + tag.data_size

\* C2 (as claimed): a tag whose header the stream ended in (the
\* end-of-file indicator is set when the header has been read) is never
\* dispatched, and flv_read_tag never returns a tag whose declared payload
\* the stream does not hold.
C2_TruncatedIsError ==
    /\ ~(pc = "dispatch" /\ eof)
    /\ ~(pc = "free" /\ len < hdr_end + tag.data_size)

\* C3: when the stream holds no tag-type byte for the next tag (fewer than 5
\* bytes left at the start of flv_read_tag) the call ends in EndOfStream
\* with no tag, not in an error state, and flv_parser_run returns 0; from
\* EndOfStream nothing is read, dispatched or decoded any more.
C3_EndOfStream ==
    [][ /\ (pc = "read_tag" /\ len - pos < 5)
            => (pc' = "done" /\ ret' = 0 /\ tag' = Nil)
        /\ pc' = "done" => (pc = "read_tag" /\ ret' = 0)
        /\ pc = "done" => UNCHANGED vars ]_vars

\* C3 witness: EndOfStream reached after at least one tag was read
C3_Witness == pc = "done" /\ ret = 0 /\ hdr_end > 0 /\ pos = len

AudioPcs == {"read_audio_tag", "audio_aac", "audio_data"}
VideoPcs == {"read_video_tag", "video_data", "read_avc_video_tag", "avc_nalu", "avc_data"}
ScriptPcs == {"read_scriptdata_tag", "script_value", "object_loop", "object_property",
              "script_end"}

\* C4: the dispatch sends tag type 8 to the audio decoder, 9 to the video
\* decoder, 18 to the script-data decoder and nothing else to any of them;
\* every other tag type ends the process in die() with no payload byte
\* consumed, and nothing happens after that.
C4_Dispatch ==
    /\ [](/\ pc \in AudioPcs => tag.tag_type = 8
          /\ pc \in VideoPcs => tag.tag_type = 9
          /\ pc \in ScriptPcs => tag.tag_type = 18)
    /\ [][ /\ pc = "dispatch" =>
               /\ tag.tag_type = 8 => pc' = "read_audio_tag"
               /\ tag.tag_type = 9 => pc' = "read_video_tag"
               /\ tag.tag_type = 18 => pc' = "read_scriptdata_tag"
               /\ tag.tag_type \notin {8, 9, 18} => (pc' = "died" /\ pos' = pos)
           /\ pc' = "died" => (pc = "dispatch" /\ tag.tag_type \notin {8, 9, 18})
           /\ pc = "died" => UNCHANGED vars ]_vars

\* C4 witness: an undefined tag type has ended the process while the stream
\* still holds the bytes of its payload
C4_Witness == pc = "died" /\ pos = hdr_end /\ pos < len /\ ~eof

\* read_scriptdata_tag has decoded the body and returned the tag
BodyAccepted ==
    /\ pc = "free"
    /\ sd # Nil
    /\ sd.exit_by # "none"

\* C5 (as claimed): a body that read_scriptdata_tag accepts was ended by an
\* empty property name followed by type byte 9, and by nothing else.
C5_OnlyTerminator == BodyAccepted => sd.exit_by = "terminator"

\* C6 (as claimed): once a property of an unsupported type was met, at any
\* depth, the cursor does not move again and no further property is decoded.
C6_UnsupportedStops ==
    [][ (sd # Nil /\ sd.unsupported /\ pc' # "read_tag")
          => (sd'.c.off = sd.c.off /\ pc' # "object_property") ]_vars

\* C7 (as claimed, the failure clause): a strict-array decode that returns
\* its declared count N has read N Number items; it does not return N with
\* the cursor short of them.
C7_StrictArrayComplete ==
    (sd # Nil /\ sd.strict # Nil /\ sd.strict.ok)
        => sd.strict.items = sd.strict.length

\* C7 (as claimed, the byte count): a strict-array decode that read all of
\* its N Number items moved the cursor by 1 + 4 + 8 * N bytes.
C7_StrictArrayBytes ==
    (sd # Nil /\ sd.strict # Nil /\ sd.strict.ok /\ sd.strict.items = sd.strict.length)
        => sd.strict.to.off - sd.strict.from.off = 1 + 4 + 8 * sd.strict.length

\* What the code does for a complete array: every item is a type byte and
\* eight bytes of number, 1 + 4 + 9 * N in all.
StrictArrayNineBytesPerItem ==
    (sd # Nil /\ sd.strict # Nil /\ sd.strict.ok /\ sd.strict.items = sd.strict.length)
        => sd.strict.to.off - sd.strict.from.off = 1 + 4 + 9 * sd.strict.length

\* the 24-bit field v read as a signed value
composition_time_signed(v) == IF v >= 8388608 THEN v - 16777216 ELSE v

\* C8 (as claimed): with the stream and the declared payload holding the
\* fields, before the body is read: for packet type 1 the composition time is the sign-extended 24-bit
\* field, a 32-bit first-NALU length was read and 8 bytes are consumed; for
\* every other packet type the composition time is 0, no length was read
\* and 1 byte is consumed.
C8_AvcPacket ==
    (pc = "avc_data" /\ ~eof /\ count <= avc.data_size) =>
        IF avc.avc_packet_type = 1
        THEN /\ avc.composition_time
                  = composition_time_signed(avc.composition_time % 16777216)
             /\ count = 8
             /\ pos = hdr_end + 1 + 8
        ELSE /\ avc.composition_time = 0
             /\ avc.nalu_len = 0
             /\ count = 1
             /\ pos = hdr_end + 1 + 1

\* C9 (as claimed): a video tag with frame type 5 is never decoded to the
\* end, and no byte after its first payload byte is consumed.
C9_FrameType5Fails ==
    (video # Nil /\ video.frame_type = 5)
        => (pc # "free" /\ pos <= hdr_end + 1)

\* C10: for every first payload byte b, the sound fields are bits 7..4,
\* 3..2, 1 and 0 of b; the decoder consumes one further byte as the AAC
\* packet type exactly when the sound format is 10 (and the stream holds
\* that byte), never otherwise; and the data is printed as
\* AudioSpecificConfig exactly when an AAC packet type of 0 was read and
\* data bytes follow it.
C10_AudioDecode ==
    /\ (pc = "audio_aac" /\ count = 1) =>
          /\ audio.sound_format = byte \div 16
          /\ audio.sound_rate = (byte \div 4) % 4
          /\ audio.sound_size = (byte \div 2) % 2
          /\ audio.sound_type = byte % 2
          /\ pos = hdr_end + 1
    /\ (pc = "audio_data" /\ count >= 1) =>
          /\ pos - (hdr_end + 1)
               = (IF audio.sound_format = 10 /\ len > hdr_end + 1 THEN 1 ELSE 0)
          /\ count = pos - hdr_end
          /\ audio.aac_packet_type # 255
               => (audio.sound_format = 10 /\ audio.aac_packet_type = byte)
          /\ audio.sound_format # 10 => audio.aac_packet_type = 255
    /\ (pc \in {"free", "crashed"} /\ audio # Nil) =>
          (audio.config <=> (/\ audio.sound_format = 10
                             /\ audio.aac_packet_type = 0
                             /\ pos > hdr_end + 2))

\* C10 witness: an AAC tag whose packet type 0 was read and whose data was
\* printed as configuration
C10_Witness ==
    /\ pc = "free"
    /\ audio # Nil
    /\ audio.sound_format = 10
    /\ audio.aac_packet_type = 0
    /\ audio.config
    /\ pos = hdr_end + tag.data_size


\* the states in which the process has stopped: flv_parser_run returned,
\* die() called exit, an assert aborted, the process crashed
Stopped == {"done", "died", "aborted", "crashed"}

\* C11: flv_parser_run eventually stops, in EndOfStream or in an error
\* state.  The file position never goes back and every flv_read_tag call
\* that does not end in EndOfStream consumes at least one stream byte; every
\* turn of the loop in print_scriptdata_object consumes at least one payload
\* byte or leaves the loop; the nesting depth of print_scriptdata_object is
\* at most the number of payload bytes consumed, which is at most the
\* payload length.
C11_Terminates ==
    /\ <>(pc \in Stopped)
    /\ [](sd # Nil => (sd.depth <= sd.c.off /\ sd.c.off <= tag.data_size))
    /\ [][ /\ pos' >= pos
           /\ (pc = "read_tag" /\ pc' # "done") => pos' > pos
           /\ pc = "object_loop"
                => (sd'.c.off > sd.c.off \/ sd'.depth < sd.depth)
           /\ pc = "object_property" => sd'.c.off >= sd.c.off ]_vars

\* C11 witness: a payload longer than MaxPayload has been decoded to its
\* last byte, property by property, and the outermost loop was left at the
\* terminator
C11_Witness ==
    /\ pc = "script_end"
    /\ tag.data_size > MaxPayload
    /\ sd.exit_by = "terminator"
    /\ sd.c.l = 0

\* C12: while a script-data payload is decoded, cursor offset + remaining
\* length is the declared payload-size, the remaining length is never below
\* 0, every byte looked at and every byte written lies below the payload
\* boundary, and the offset never decreases.
C12_CursorInvariant ==
    /\ [](sd # Nil => /\ sd.c.off + sd.c.l = tag.data_size
                      /\ sd.c.l >= 0
                      /\ sd.c.off + Len(sd.c.peek) <= tag.data_size
                      /\ sd.wrote <= tag.data_size)
    /\ [][(sd # Nil /\ sd' # Nil) => sd'.c.off >= sd.c.off]_vars

\* C12 witness: the payload ends in a string property; the string was
\* moved and terminated in place up to the last payload byte and the loop
\* has been left with nothing remaining
C12_Witness ==
    /\ pc = "script_end"
    /\ sd.c.l = 0
    /\ sd.exit_by = "exhausted"
    /\ sd.wrote = tag.data_size


====
